---- MODULE Spec2Model ----
(***************************************************************************)
(* A model of app.py: the Streamlit form with the "Generate Leads" and     *)
(* "Scrape Instagram Posts" actions, their guards, the pipeline steps       *)
(* generate_payload -> run_linkedin_scraper -> convert_to_dataframe ->      *)
(* to_csv (and the Instagram variant), and the try/except around them.      *)
(*                                                                         *)
(* A Python str is a sequence of characters.  A character is a TLA+ string: *)
(* either one special character (a quote, a comma, a line break, a brace,   *)
(* a white-space character) or a run of ordinary characters kept whole,     *)
(* which begins and ends with a character that is not white space.  The     *)
(* ordinary runs never hold a backslash, so JSON escapes do not occur.      *)
(***************************************************************************)
EXTENDS Naturals, Sequences, FiniteSets, TLC

VARIABLES
    mistral_api_key,        \* sidebar text input (a str)
    apify_api_token,        \* sidebar text input (a str)
    user_input,             \* LinkedIn tab text area (a str)
    instagram_profile_url,  \* Instagram tab text input (a str)
    instagram_max_items,    \* Instagram tab number input
    button,                 \* the button whose press started this script run
    pc,                     \* position of the script run
    llm_reply,              \* response.choices[0].message.content of this run
    payload,                \* generate_payload's return value
    results,                \* run_linkedin_scraper's / run_instagram_posts_scraper's return value
    df,                     \* the DataFrame of this run
    csv_data,               \* the CSV text handed to st.download_button
    messages,               \* what this run has rendered (st.error, st.success, ...)
    calls,                  \* network calls this run has issued, in order
    raised,                 \* the exception the except clause of this run caught
    runs,                   \* button presses so far
    last_outcome            \* how the latest finished button run ended

vars == <<mistral_api_key, apify_api_token, user_input, instagram_profile_url,
          instagram_max_items, button, pc, llm_reply, payload, results, df,
          csv_data, messages, calls, raised, runs, last_outcome>>

widgets == <<mistral_api_key, apify_api_token, user_input, instagram_profile_url,
             instagram_max_items>>

---------------------------------------------------------------------------
(* Bounds of the model. *)

\* longest list of raw records a fetch returns in the record-normalizer specification
MaxRecords == 2
\* longest list of raw records a fetch returns in the form specification
MaxFetched == 2
\* button presses followed in one behaviour
MaxRuns == 2

---------------------------------------------------------------------------
(* Characters. *)

SP == " "
NL == "\n"
NBSP == "<U+00A0>"    \* a white-space character of str.strip that JSON does not accept
DQ == "\""
FENCE == "<fence>"    \* the three backquotes that open and close a Markdown code block
COMMA == ","

\* str.strip() with no argument removes these (str.isspace)
PyWhitespace == {SP, NL, "\t", "\r", NBSP}
\* json.loads skips these between tokens
JsonWhitespace == {SP, NL, "\t", "\r"}

---------------------------------------------------------------------------
(* Python values. *)

None == [t |-> "null"]
\* a name the script run has not bound yet
Unset == [t |-> "unset"]
Str(cs) == [t |-> "str", s |-> cs]
S1(a) == Str(<<a>>)                       \* a str of one run of ordinary characters
Num(n) == [t |-> "num", n |-> n]          \* n: the decimal text of the number
Bool(b) == [t |-> "bool", b |-> b]
List(xs) == [t |-> "list", xs |-> xs]
\* a dict keeps its insertion order: a sequence of <<key, value>> with distinct keys
Dict(items) == [t |-> "dict", items |-> items]
\* the outcome of an expression that raises
Raise(exc) == [t |-> "raise", exc |-> exc]

IsRaise(v) == v.t = "raise"
IsDict(v) == v.t = "dict"
IsList(v) == v.t = "list"

\* bool(v): what `not v` and `v or w` test
Truthy(v) ==
    CASE v.t = "null" -> FALSE
      [] v.t = "str"  -> v.s # <<>>
      [] v.t = "num"  -> v.n \notin {"0", "0.0"}
      [] v.t = "bool" -> v.b
      [] v.t = "list" -> v.xs # <<>>
      [] v.t = "dict" -> v.items # <<>>
      [] OTHER        -> TRUE

\* `a or b`
Or(a, b) == IF Truthy(a) THEN a ELSE b

HasKey(d, k) == \E i \in 1..Len(d.items) : d.items[i][1] = k

Lookup(d, k) == d.items[CHOOSE i \in 1..Len(d.items) : d.items[i][1] = k][2]

\* v.get(k): None when the key is absent, AttributeError when v is no dict
Get(v, k) ==
    IF ~IsDict(v) THEN Raise("AttributeError")
    ELSE IF HasKey(v, k) THEN Lookup(v, k) ELSE None

\* v[k] on a dict: KeyError when the key is absent, TypeError when v has no str keys
Subscript(v, k) ==
    IF IsDict(v) THEN (IF HasKey(v, k) THEN Lookup(v, k) ELSE Raise("KeyError"))
    ELSE Raise("TypeError")

\* d[k] = v: replaces in place or appends
SetItem(items, k, v) ==
    IF \E i \in 1..Len(items) : items[i][1] = k
    THEN [i \in 1..Len(items) |-> IF items[i][1] = k THEN <<k, v>> ELSE items[i]]
    ELSE Append(items, <<k, v>>)

\* v[0]
Index0(v) ==
    CASE v.t = "list" -> (IF v.xs = <<>> THEN Raise("IndexError") ELSE v.xs[1])
      [] v.t = "str"  -> (IF v.s = <<>> THEN Raise("IndexError") ELSE Str(<<v.s[1]>>))
      [] v.t = "dict" -> Raise("KeyError")
      [] OTHER        -> Raise("TypeError")

Keys(d) == [i \in 1..Len(d.items) |-> d.items[i][1]]

---------------------------------------------------------------------------
(* str.strip() *)

RECURSIVE LStrip(_)
LStrip(cs) ==
    IF cs # <<>> /\ Head(cs) \in PyWhitespace THEN LStrip(Tail(cs)) ELSE cs

RECURSIVE RStrip(_)
RStrip(cs) ==
    IF cs # <<>> /\ cs[Len(cs)] \in PyWhitespace
    THEN RStrip(SubSeq(cs, 1, Len(cs) - 1)) ELSE cs

\* the guard without the strip: `if not user_input`
PyStripNothing(cs) == cs

PyStrip(cs) == RStrip(LStrip(cs))

---------------------------------------------------------------------------
(* json.loads *)

NumberLiterals == {"0", "25", "50"}

ParseFail == [ok |-> FALSE, val |-> None, rest |-> <<>>]
ParseOk(v, rest) == [ok |-> TRUE, val |-> v, rest |-> rest]

RECURSIVE SkipWs(_)
SkipWs(cs) ==
    IF cs # <<>> /\ Head(cs) \in JsonWhitespace THEN SkipWs(Tail(cs)) ELSE cs

\* the characters of a string literal up to its closing quote; control characters
\* (a raw line break) are not allowed inside a JSON string
RECURSIVE ScanString(_, _)
ScanString(cs, acc) ==
    IF cs = <<>> THEN ParseFail
    ELSE IF Head(cs) = DQ THEN ParseOk(Str(acc), Tail(cs))
    ELSE IF Head(cs) \in {NL, "\t", "\r"} THEN ParseFail
    ELSE ScanString(Tail(cs), Append(acc, Head(cs)))

RECURSIVE ParseValue(_), ParseMembers(_, _), ParseElements(_, _)

ParseValue(cs0) ==
    LET cs == SkipWs(cs0) IN
    IF cs = <<>> THEN ParseFail
    ELSE LET c == Head(cs)
             r == SkipWs(Tail(cs))
         IN CASE c = DQ  -> ScanString(Tail(cs), <<>>)
              [] c = "{" -> (IF r # <<>> /\ Head(r) = "}"
                             THEN ParseOk(Dict(<<>>), Tail(r))
                             ELSE ParseMembers(r, <<>>))
              [] c = "[" -> (IF r # <<>> /\ Head(r) = "]"
                             THEN ParseOk(List(<<>>), Tail(r))
                             ELSE ParseElements(r, <<>>))
              [] c \in NumberLiterals -> ParseOk(Num(c), Tail(cs))
              [] c = "null"  -> ParseOk(None, Tail(cs))
              [] c = "true"  -> ParseOk(Bool(TRUE), Tail(cs))
              [] c = "false" -> ParseOk(Bool(FALSE), Tail(cs))
              [] OTHER -> ParseFail

\* "key" : value { , "key" : value } "}" ; a repeated key keeps its last value
ParseMembers(cs, items) ==
    IF cs = <<>> \/ Head(cs) # DQ THEN ParseFail
    ELSE LET k == ScanString(Tail(cs), <<>>) IN
         IF ~k.ok THEN ParseFail
         ELSE LET a == SkipWs(k.rest) IN
              IF a = <<>> \/ Head(a) # ":" THEN ParseFail
              ELSE LET v == ParseValue(Tail(a)) IN
                   IF ~v.ok THEN ParseFail
                   ELSE LET b == SkipWs(v.rest)
                            now == SetItem(items, k.val.s, v.val)
                        IN IF b = <<>> THEN ParseFail
                           ELSE IF Head(b) = "}" THEN ParseOk(Dict(now), Tail(b))
                           ELSE IF Head(b) = COMMA
                                THEN ParseMembers(SkipWs(Tail(b)), now)
                           ELSE ParseFail

\* value { , value } "]"
ParseElements(cs, xs) ==
    LET v == ParseValue(cs) IN
    IF ~v.ok THEN ParseFail
    ELSE LET b == SkipWs(v.rest)
             now == Append(xs, v.val)
         IN IF b = <<>> THEN ParseFail
            ELSE IF Head(b) = "]" THEN ParseOk(List(now), Tail(b))
            ELSE IF Head(b) = COMMA THEN ParseElements(Tail(b), now)
            ELSE ParseFail

\* json.loads(s): the value, or JSONDecodeError (no value, or text after it)
JsonLoads(cs) ==
    LET v == ParseValue(cs) IN
    IF v.ok /\ SkipWs(v.rest) = <<>> THEN v.val ELSE Raise("JSONDecodeError")

\* json.loads(content), the strip forgotten
GeneratePayloadParseUntrimmed(content) == JsonLoads(content)

\* generate_payload after the chat completion has returned `content`
GeneratePayloadParse(content) == JsonLoads(PyStrip(content))

---------------------------------------------------------------------------
(* Iteration, and the evaluation of a dict display. *)

\* `for x in data`: the elements of a list, the keys of a dict, the characters of
\* a str; anything else is not iterable
Iterate(data) ==
    CASE data.t = "list" -> data.xs
      [] data.t = "dict" -> [i \in 1..Len(data.items) |-> Str(data.items[i][1])]
      [] data.t = "str"  -> [i \in 1..Len(data.s) |-> Str(<<data.s[i]>>)]
      [] OTHER           -> <<>>

Iterable(data) == data.t \in {"list", "dict", "str"}

\* the first value of xs that is a raise, or None when there is none
FirstRaise(xs) ==
    IF \E i \in 1..Len(xs) : IsRaise(xs[i])
    THEN xs[CHOOSE i \in 1..Len(xs) :
                /\ IsRaise(xs[i])
                /\ \A j \in 1..(i - 1) : ~IsRaise(xs[j])]
    ELSE None

\* {k1: e1, k2: e2, ...}: the values are evaluated in order, the first raise ends it
DictDisplay(pairs) ==
    LET r == FirstRaise([i \in 1..Len(pairs) |-> pairs[i][2]]) IN
    IF IsRaise(r) THEN r ELSE Dict(pairs)

---------------------------------------------------------------------------
(* convert_to_dataframe and convert_instagram_to_dataframe: the rows. *)

LeadsColumns ==
    << <<"Profile URL">>, <<"First Name">>, <<"Last Name">>, <<"Email">>,
       <<"Headline">>, <<"Company Website">>, <<"Location">>, <<"Followers">>,
       <<"Connections Count">> >>

PostsColumns ==
    << <<"Post URL">>, <<"Caption">>, <<"Likes">>, <<"Comments">>,
       <<"Posted At">>, <<"Is Video">>, <<"Thumbnail">>, <<"Username">> >>

\* (profile.get(outer) or [{}])[0].get(inner)
FirstElementField(profile, outer, inner) ==
    LET a == Get(profile, <<outer>>) IN
    IF IsRaise(a) THEN a
    ELSE LET x == Index0(Or(a, List(<<Dict(<<>>)>>))) IN
         IF IsRaise(x) THEN x ELSE Get(x, <<inner>>)

\* (profile.get(outer) or {}).get(inner)
NestedField(profile, outer, inner) ==
    LET a == Get(profile, <<outer>>) IN
    IF IsRaise(a) THEN a ELSE Get(Or(a, Dict(<<>>)), <<inner>>)

\* the dict appended for one profile
LeadRow(profile) ==
    DictDisplay(<<
        << <<"Profile URL">>, Get(profile, <<"linkedinUrl">>) >>,
        << <<"First Name">>, Get(profile, <<"firstName">>) >>,
        << <<"Last Name">>, Get(profile, <<"lastName">>) >>,
        << <<"Email">>, FirstElementField(profile, "emails", "email") >>,
        << <<"Headline">>, Get(profile, <<"headline">>) >>,
        << <<"Company Website">>, FirstElementField(profile, "companyWebsites", "url") >>,
        << <<"Location">>, NestedField(profile, "location", "linkedinText") >>,
        << <<"Followers">>, Get(profile, <<"followerCount">>) >>,
        << <<"Connections Count">>, Get(profile, <<"connectionsCount">>) >> >>)

\* post.get(k1) or post.get(k2)
Chain2(post, k1, k2) ==
    LET a == Get(post, <<k1>>) IN
    IF IsRaise(a) THEN a ELSE Or(a, Get(post, <<k2>>))

\* post.get(k1) or post.get(k2) or post.get(k3)
Chain3(post, k1, k2, k3) ==
    LET a == Chain2(post, k1, k2) IN
    IF IsRaise(a) THEN a ELSE Or(a, Get(post, <<k3>>))

\* the dict appended for one post
PostRow(post) ==
    DictDisplay(<<
        << <<"Post URL">>, Chain3(post, "postUrl", "url", "permalink") >>,
        << <<"Caption">>, Chain2(post, "caption", "text") >>,
        << <<"Likes">>, Chain2(post, "likesCount", "likes") >>,
        << <<"Comments">>, Chain2(post, "commentsCount", "comments") >>,
        << <<"Posted At">>, Chain2(post, "timestamp", "takenAt") >>,
        << <<"Is Video">>, Get(post, <<"isVideo">>) >>,
        << <<"Thumbnail">>, Chain2(post, "displayUrl", "thumbnailUrl") >>,
        << <<"Username">>, Chain2(post, "ownerUsername", "username") >> >>)

---------------------------------------------------------------------------
(* pd.DataFrame(rows) for a list of dicts. *)

RECURSIVE UnionOfKeys(_, _)
\* the keys of the rows in the order of their first appearance
UnionOfKeys(rows, acc) ==
    IF rows = <<>> THEN acc
    ELSE LET ks == Keys(Head(rows))
             new == SelectSeq(ks, LAMBDA k : \A i \in 1..Len(acc) : acc[i] # k)
         IN UnionOfKeys(Tail(rows), acc \o new)

\* columns: the union of the rows' keys; data: one line per row, a cell per column,
\* None where the row lacks the key.  An empty list gives no column and no line.
DataFrame(rows) ==
    LET cols == UnionOfKeys(rows, <<>>) IN
    [t |-> "df",
     columns |-> cols,
     data |-> [i \in 1..Len(rows) |->
                  [j \in 1..Len(cols) |-> Get(rows[i], cols[j])]]]

\* convert_to_dataframe(data)
ConvertToDataframe(data) ==
    IF ~Iterable(data) THEN Raise("TypeError")
    ELSE LET elems == Iterate(data)
             rows == [i \in 1..Len(elems) |-> LeadRow(elems[i])]
             r == FirstRaise(rows)
         IN IF IsRaise(r) THEN r ELSE DataFrame(rows)

\* convert_instagram_to_dataframe(data)
ConvertInstagramToDataframe(data) ==
    IF ~Iterable(data) THEN Raise("TypeError")
    ELSE LET elems == Iterate(data)
             rows == [i \in 1..Len(elems) |-> PostRow(elems[i])]
             r == FirstRaise(rows)
         IN IF IsRaise(r) THEN r ELSE DataFrame(rows)

---------------------------------------------------------------------------
(* DataFrame.to_csv(buffer, index=False) *)

\* a column of numbers with a missing value is held as floats
FloatColumn(frame, j) ==
    /\ \A i \in 1..Len(frame.data) : frame.data[i][j].t \in {"num", "null"}
    /\ \E i \in 1..Len(frame.data) : frame.data[i][j].t = "num"
    /\ \E i \in 1..Len(frame.data) : frame.data[i][j].t = "null"

\* the text of a cell: a missing value is the empty text (na_rep)
CellText(v, asFloat) ==
    CASE v.t = "null" -> <<>>
      [] v.t = "str"  -> v.s
      [] v.t = "num"  -> (IF asFloat THEN <<v.n, ".0">> ELSE <<v.n>>)
      [] v.t = "bool" -> (IF v.b THEN <<"True">> ELSE <<"False">>)
      [] OTHER        -> <<"<repr>">>

\* csv.QUOTE_MINIMAL: a field holding the delimiter, the quote or a line break
NeedsQuote(field) ==
    \E i \in 1..Len(field) : field[i] \in {COMMA, DQ, NL, "\r"}

RECURSIVE DoubleQuotes(_)
DoubleQuotes(field) ==
    IF field = <<>> THEN <<>>
    ELSE (IF Head(field) = DQ THEN <<DQ, DQ>> ELSE <<Head(field)>>)
         \o DoubleQuotes(Tail(field))

WriteField(field) ==
    IF NeedsQuote(field) THEN <<DQ>> \o DoubleQuotes(field) \o <<DQ>> ELSE field

RECURSIVE JoinFields(_)
JoinFields(fields) ==
    IF Len(fields) = 1 THEN WriteField(fields[1])
    ELSE WriteField(Head(fields)) \o <<COMMA>> \o JoinFields(Tail(fields))

\* csv.writer.writerow: no field writes the line end alone, a lone empty field is quoted
WriteRow(fields) ==
    IF fields = <<>> THEN <<NL>>
    ELSE IF fields = << <<>> >> THEN <<DQ, DQ, NL>>
    ELSE JoinFields(fields) \o <<NL>>

RECURSIVE WriteRows(_)
WriteRows(lines) ==
    IF lines = <<>> THEN <<>> ELSE WriteRow(Head(lines)) \o WriteRows(Tail(lines))

\* the header row (the column names), then one row per line of the frame
ToCsv(frame) ==
    WriteRow(frame.columns)
    \o WriteRows([i \in 1..Len(frame.data) |->
                    [j \in 1..Len(frame.columns) |->
                        CellText(frame.data[i][j], FloatColumn(frame, j))]])

---------------------------------------------------------------------------
(* The language model's replies: the texts the synthesizer is run on. *)

RequiredKeys == {"search", "location", "maxResults", "jobTitles", "industry"}
KeyOrder == <<"search", "location", "maxResults", "jobTitles", "industry">>
Variants == {"uk", "us"}

\* the value a reply of the given variant gives to a key
SampleValue(k, variant) ==
    CASE k = "search"     -> S1("SaaS founders")
      [] k = "location"   -> (IF variant = "uk" THEN S1("United Kingdom")
                              ELSE S1("United States"))
      [] k = "maxResults" -> (IF variant = "uk" THEN Num("50") ELSE Num("25"))
      [] k = "jobTitles"  -> List(<<S1("Founder"), S1("CEO")>>)
      [] k = "industry"   -> (IF variant = "uk" THEN S1("SaaS") ELSE S1("Fintech"))

\* its JSON text
SampleValueText(k, variant) ==
    CASE k = "search"     -> <<DQ, "SaaS founders", DQ>>
      [] k = "location"   -> (IF variant = "uk" THEN <<DQ, "United Kingdom", DQ>>
                              ELSE <<DQ, "United States", DQ>>)
      [] k = "maxResults" -> (IF variant = "uk" THEN <<"50">> ELSE <<"25">>)
      [] k = "jobTitles"  -> <<"[", DQ, "Founder", DQ, COMMA, SP, DQ, "CEO", DQ, "]">>
      [] k = "industry"   -> (IF variant = "uk" THEN <<DQ, "SaaS", DQ>>
                              ELSE <<DQ, "Fintech", DQ>>)

KeysIn(S) == SelectSeq(KeyOrder, LAMBDA k : k \in S)

\* the object with the keys S
SampleObject(S, variant) ==
    LET ks == KeysIn(S) IN
    Dict([i \in 1..Len(ks) |-> << <<ks[i]>>, SampleValue(ks[i], variant) >>])

RECURSIVE MembersText(_, _)
MembersText(ks, variant) ==
    IF ks = <<>> THEN <<>>
    ELSE <<DQ, Head(ks), DQ, ":", SP>> \o SampleValueText(Head(ks), variant)
         \o (IF Len(ks) = 1 THEN <<>> ELSE <<COMMA, NL>>)
         \o MembersText(Tail(ks), variant)

\* the JSON text of the object with the keys S
ObjectText(S, variant) == <<"{">> \o MembersText(KeysIn(S), variant) \o <<"}">>

\* what a model does to the JSON it was asked for
Corruptions == {"none", "unclosed", "fenced", "prose", "trailing_comma"}

Corrupt(core, c) ==
    CASE c = "none"     -> core
      [] c = "unclosed" -> SubSeq(core, 1, Len(core) - 1)
      [] c = "fenced"   -> <<FENCE, "json", NL>> \o core \o <<NL, FENCE>>
      [] c = "prose"    -> <<"Here is the JSON:", NL>> \o core
      [] c = "trailing_comma" ->
            SubSeq(core, 1, Len(core) - 1) \o <<COMMA, "}">>

Pads == {<<>>, <<NL>>, <<NBSP, SP>>}

ObjectReplies(keysets, corruptions) ==
    {lead \o Corrupt(ObjectText(S, v), c) \o trail :
        S \in keysets, v \in Variants, c \in corruptions,
        lead \in Pads, trail \in Pads}

\* replies that are JSON, but no object
ScalarReplies == {<<"25">>, <<"null">>, <<DQ, "SaaS founders", DQ>>, <<"[", "]">>,
                  <<NL, "true", SP>>}
\* replies that are no JSON at all
ProseReplies == {<<>>, <<SP>>, <<"I cannot help with that.">>, <<"25", SP, "50">>}

\* the replies the synthesizer specification draws
AllReplies ==
    ObjectReplies(SUBSET RequiredKeys, Corruptions) \cup ScalarReplies \cup ProseReplies

\* the replies the form specification draws
FormReplies ==
    {ObjectText(RequiredKeys, "uk"),
     <<NBSP>> \o ObjectText(RequiredKeys, "us") \o <<NL>>,
     ObjectText(RequiredKeys \ {"location", "industry"}, "uk"),
     ObjectText(RequiredKeys \ {"jobTitles"}, "uk"),
     Corrupt(ObjectText(RequiredKeys, "uk"), "fenced"),
     <<"25">>}

---------------------------------------------------------------------------
(* The raw records the scraping platform returns. *)

With(d, k, v) == Dict(SetItem(d.items, <<k>>, v))
Without(d, k) == Dict(SelectSeq(d.items, LAMBDA kv : kv[1] # <<k>>))

BaseLead ==
    Dict(<< << <<"linkedinUrl">>, S1("https://www.linkedin.com/in/ada") >>,
            << <<"firstName">>, S1("Ada") >>,
            << <<"lastName">>, S1("Byron") >>,
            << <<"emails">>, List(<<Dict(<< << <<"email">>, S1("ada@example.com") >> >>)>>) >>,
            << <<"headline">>, S1("Founder") >>,
            << <<"companyWebsites">>, List(<<Dict(<< << <<"url">>, S1("https://example.com") >> >>)>>) >>,
            << <<"location">>, Dict(<< << <<"linkedinText">>, S1("London") >> >>) >>,
            << <<"followerCount">>, Num("50") >>,
            << <<"connectionsCount">>, Num("25") >> >>)

\* the shapes of an array-of-object field
ArrayShapes(inner, value) ==
    {None, List(<<>>), List(<<None>>), List(<<Dict(<<>>)>>),
     List(<<Dict(<< << <<inner>>, None >> >>)>>),
     List(<<Dict(<< << <<inner>>, value >> >>), None>>)}

\* the shapes of the nested location object
ObjectShapes == {None, Dict(<<>>), Dict(<< << <<"country">>, S1("UK") >> >>)}

LeadRecords ==
    {BaseLead, Dict(<<>>)}
    \cup {Without(BaseLead, k) : k \in {"emails", "companyWebsites", "location", "followerCount"}}
    \cup {With(BaseLead, "emails", a) : a \in ArrayShapes("email", S1("bob@example.com"))}
    \cup {With(BaseLead, "companyWebsites", a) : a \in ArrayShapes("url", S1("https://b.example"))}
    \cup {With(BaseLead, "location", o) : o \in ObjectShapes}
    \cup {With(BaseLead, "headline", Str(<<"CEO", COMMA, SP, DQ, "Acme", DQ, NL, "Founder">>)),
          With(BaseLead, "followerCount", Num("0"))}

BasePost ==
    Dict(<< << <<"postUrl">>, S1("https://www.instagram.com/p/1/") >>,
            << <<"caption">>, S1("hello") >>,
            << <<"likesCount">>, Num("50") >>,
            << <<"commentsCount">>, Num("25") >>,
            << <<"timestamp">>, S1("2024-01-01T00:00:00Z") >>,
            << <<"isVideo">>, Bool(FALSE) >>,
            << <<"displayUrl">>, S1("https://cdn.example/1.jpg") >>,
            << <<"ownerUsername">>, S1("instagram") >> >>)

OnlyUrl == With(Without(BasePost, "postUrl"), "url", S1("https://www.instagram.com/p/2/"))

PostRecords ==
    {BasePost, Dict(<<>>), OnlyUrl,
     With(Without(BasePost, "postUrl"), "permalink", S1("https://www.instagram.com/p/3/")),
     With(With(BasePost, "postUrl", None), "url", S1("https://www.instagram.com/p/2/")),
     With(With(BasePost, "postUrl", Str(<<>>)), "url", S1("https://www.instagram.com/p/2/")),
     With(With(BasePost, "likesCount", Num("0")), "likes", Num("25")),
     With(BasePost, "likesCount", Num("0")),
     With(Without(BasePost, "likesCount"), "likes", Num("0")),
     With(Without(BasePost, "likesCount"), "likes", Num("25")),
     With(With(BasePost, "commentsCount", None), "comments", Num("0")),
     With(With(BasePost, "caption", Str(<<>>)), "text", S1("alt text")),
     With(BasePost, "caption", Str(<<"one", COMMA, SP, DQ, "two", DQ, NL, "three">>)),
     With(Without(BasePost, "timestamp"), "takenAt", S1("2024-02-02T00:00:00Z")),
     With(Without(BasePost, "displayUrl"), "thumbnailUrl", S1("https://cdn.example/t.jpg")),
     With(Without(BasePost, "ownerUsername"), "username", S1("insta")),
     With(BasePost, "isVideo", Bool(TRUE)),
     Without(BasePost, "isVideo")}

\* the lists of at most n records of R
RECURSIVE ListsUpTo(_, _)
ListsUpTo(R, n) ==
    IF n = 0 THEN {<<>>}
    ELSE LET shorter == ListsUpTo(R, n - 1) IN
         shorter \cup {Append(xs, r) : xs \in {l \in shorter : Len(l) = n - 1}, r \in R}

\* the record lists the normalizer specification draws
LeadLists == {List(xs) : xs \in ListsUpTo(LeadRecords, MaxRecords)}
PostLists == {List(xs) : xs \in ListsUpTo(PostRecords, MaxRecords)}

\* what the form specification's fetches return: short lists of a few records, and
\* a JSON object in place of the array
FormLeadRecords == {BaseLead, Without(BaseLead, "emails"),
                    With(BaseLead, "emails", List(<<None>>))}
FormPostRecords == {BasePost, OnlyUrl, With(BasePost, "likesCount", Num("0"))}
ErrorObject == Dict(<< << <<"error">>, S1("actor failed") >> >>)
FormLeadResults ==
    {List(xs) : xs \in ListsUpTo(FormLeadRecords, MaxFetched)} \cup {ErrorObject}
FormPostResults == {List(xs) : xs \in ListsUpTo(FormPostRecords, MaxFetched)}

---------------------------------------------------------------------------
(* The form: widgets, buttons, and what a script run renders. *)

\* the only option of the model selectbox
ModelChoice == "open-mistral-nemo"

KeyChoices == {<<>>, <<"sk-mistral">>}
TokenChoices == {<<>>, <<"apify_api_xyz">>}
UserInputChoices == {<<>>, <<SP, NL>>, <<"Give me 50 SaaS founders in UK">>}
ProfileUrlChoices == {<<>>, <<SP>>, <<SP, "https://www.instagram.com/instagram/", NL>>}
\* st.number_input(min_value=1, max_value=500, value=10)
MaxItemsChoices == {"10", "500"}

Shown(kind, text) == [kind |-> kind, text |-> text]

\* `except json.JSONDecodeError as e`: any other error leaves the script run
ExceptHandlerDecodeErrorsOnly(shown, e) ==
    /\ raised' = e
    /\ last_outcome' = "exception"
    /\ IF e.exc = "JSONDecodeError"
       THEN /\ messages' = Append(shown, [kind |-> "error", text |-> "Error: {e}", exc |-> e.exc])
            /\ pc' = "idle"
       ELSE /\ messages' = shown
            /\ pc' = "crashed"

\* except Exception as e: st.error(f"Error: {e}"); the script run ends after it
ExceptHandler(shown, e) ==
    /\ messages' = Append(shown, [kind |-> "error", text |-> "Error: {e}", exc |-> e.exc])
    /\ raised' = e
    /\ pc' = "idle"
    /\ last_outcome' = "exception"

\* st.error(text); st.stop()
ErrorAndStop(text, outcome) ==
    /\ messages' = <<Shown("error", text)>>
    /\ pc' = "idle"
    /\ last_outcome' = outcome

\* a script run starts with nothing bound and nothing rendered
FreshRun ==
    /\ llm_reply' = Unset
    /\ payload' = Unset
    /\ results' = Unset
    /\ df' = Unset
    /\ csv_data' = Unset
    /\ calls' = <<>>
    /\ raised' = Unset

\* `if not mistral_api_key and not apify_api_token`
LeadsCredentialsMissingBoth == mistral_api_key = <<>> /\ apify_api_token = <<>>

\* `if not mistral_api_key or not apify_api_token`
LeadsCredentialsMissing == mistral_api_key = <<>> \/ apify_api_token = <<>>

\* `if not apify_api_token`
PostsCredentialsMissing == apify_api_token = <<>>

\* the user changes one widget: the script reruns with no button pressed
EditWidget ==
    /\ pc = "idle"
    /\ runs < MaxRuns
    /\ \/ \E v \in KeyChoices \ {mistral_api_key} :
            mistral_api_key' = v
            /\ UNCHANGED <<apify_api_token, user_input, instagram_profile_url, instagram_max_items>>
       \/ \E v \in TokenChoices \ {apify_api_token} :
            apify_api_token' = v
            /\ UNCHANGED <<mistral_api_key, user_input, instagram_profile_url, instagram_max_items>>
       \/ \E v \in UserInputChoices \ {user_input} :
            user_input' = v
            /\ UNCHANGED <<mistral_api_key, apify_api_token, instagram_profile_url, instagram_max_items>>
       \/ \E v \in ProfileUrlChoices \ {instagram_profile_url} :
            instagram_profile_url' = v
            /\ UNCHANGED <<mistral_api_key, apify_api_token, user_input, instagram_max_items>>
       \/ \E v \in MaxItemsChoices \ {instagram_max_items} :
            instagram_max_items' = v
            /\ UNCHANGED <<mistral_api_key, apify_api_token, user_input, instagram_profile_url>>
    /\ button' = "none"
    /\ FreshRun
    /\ messages' = <<>>
    /\ UNCHANGED <<pc, runs, last_outcome>>

\* the "Generate Leads" button: the two guards, then the pipeline
ClickGenerateLeads ==
    /\ pc = "idle"
    /\ runs < MaxRuns
    /\ runs' = runs + 1
    /\ button' = "run_button"
    /\ FreshRun
    /\ IF LeadsCredentialsMissing
       THEN ErrorAndStop("Please provide both API keys in the sidebar.", "missing_credential")
       ELSE IF PyStrip(user_input) = <<>>
       THEN ErrorAndStop("Please enter a search request.", "empty_input")
       ELSE /\ messages' = <<>>
            /\ pc' = "li_synth"
            /\ UNCHANGED last_outcome
    /\ UNCHANGED widgets

\* the "Scrape Instagram Posts" button
ClickScrapeInstagram ==
    /\ pc = "idle"
    /\ runs < MaxRuns
    /\ runs' = runs + 1
    /\ button' = "run_instagram_button"
    /\ FreshRun
    /\ IF PostsCredentialsMissing
       THEN ErrorAndStop("Please provide your Apify API token in the sidebar.", "missing_credential")
       ELSE IF PyStrip(instagram_profile_url) = <<>>
       THEN ErrorAndStop("Please enter an Instagram profile URL.", "empty_input")
       ELSE /\ messages' = <<>>
            /\ pc' = "ig_fetch"
            /\ UNCHANGED last_outcome
    /\ UNCHANGED widgets

---------------------------------------------------------------------------
(* The Generate Leads pipeline. *)

\* client.chat.complete(model, [system, user], temperature=0)
ChatCall(status) ==
    [svc |-> "chat.complete", api_key |-> mistral_api_key, model |-> ModelChoice,
     messages |-> <<[role |-> "system", content |-> <<"system_prompt">>],
                    [role |-> "user", content |-> user_input]>>,
     temperature |-> "0", status |-> status]

\* generate_payload: one chat completion, then the strict parse of its text
LeadsSynth(replies) ==
    /\ pc = "li_synth"
    /\ \E out \in {Raise("SDKError")} \cup {Str(r) : r \in replies} :
          IF IsRaise(out)
          THEN /\ calls' = Append(calls, ChatCall("failed"))
               /\ ExceptHandler(messages, out)
               /\ UNCHANGED <<llm_reply, payload>>
          ELSE LET parsed == GeneratePayloadParse(out.s) IN
               /\ calls' = Append(calls, ChatCall("ok"))
               /\ llm_reply' = out
               /\ IF IsRaise(parsed)
                  THEN ExceptHandler(messages, parsed) /\ UNCHANGED payload
                  ELSE /\ payload' = parsed
                       /\ messages' = messages \o
                              <<Shown("success", "Structured payload generated"),
                                [kind |-> "json", body |-> parsed]>>
                       /\ pc' = "li_fetch"
                       /\ UNCHANGED <<raised, last_outcome>>
    /\ UNCHANGED <<widgets, button, results, df, csv_data, runs>>

\* the body with the query's location passed on as well
SearchBodyWithLocation(query) ==
    DictDisplay(<<
        << <<"currentJobTitles">>, Subscript(query, <<"jobTitles">>) >>,
        << <<"maxItems">>, Subscript(query, <<"maxResults">>) >>,
        << <<"profileScraperMode">>, S1("Full + email search") >>,
        << <<"recentlyChangedJobs">>, Bool(FALSE) >>,
        << <<"searchQuery">>, Subscript(query, <<"search">>) >>,
        << <<"location">>, Get(query, <<"location">>) >>,
        << <<"startPage">>, Num("1") >> >>)

\* the request body of run_linkedin_scraper
SearchBody(query) ==
    DictDisplay(<<
        << <<"currentJobTitles">>, Subscript(query, <<"jobTitles">>) >>,
        << <<"maxItems">>, Subscript(query, <<"maxResults">>) >>,
        << <<"profileScraperMode">>, S1("Full + email search") >>,
        << <<"recentlyChangedJobs">>, Bool(FALSE) >>,
        << <<"searchQuery">>, Subscript(query, <<"search">>) >>,
        << <<"startPage">>, Num("1") >> >>)

\* the POST tried a second time when the first got no 2xx response
SearchCallsRetried(token, body, status) ==
    LET call == [svc |-> "linkedin-profile-search", token |-> token, json |-> body,
                 status |-> status]
    IN IF status = "ok" THEN <<call>> ELSE <<call, call>>

\* requests.post(url, json=body): the calls it makes for one outcome
SearchCalls(token, body, status) ==
    <<[svc |-> "linkedin-profile-search", token |-> token, json |-> body,
       status |-> status]>>

\* the outcomes of the POST: no response, a response that is no 2xx, a 2xx response
\* whose body is no JSON, a 2xx response with JSON
SearchOutcomes ==
    {[status |-> "failed", value |-> Raise("ConnectionError")],
     [status |-> "http_error", value |-> Raise("HTTPError")],
     [status |-> "ok", value |-> Raise("JSONDecodeError")]}
    \cup {[status |-> "ok", value |-> r] : r \in FormLeadResults}

\* run_linkedin_scraper: the body, one POST, raise_for_status, response.json()
LeadsFetch ==
    /\ pc = "li_fetch"
    /\ LET body == SearchBody(payload) IN
       IF IsRaise(body)
       THEN ExceptHandler(messages, body) /\ UNCHANGED <<calls, results>>
       ELSE \E out \in SearchOutcomes :
              /\ calls' = calls \o SearchCalls(apify_api_token, body, out.status)
              /\ IF IsRaise(out.value)
                 THEN ExceptHandler(messages, out.value) /\ UNCHANGED results
                 ELSE /\ results' = out.value
                      /\ pc' = "li_normalize"
                      /\ UNCHANGED <<messages, raised, last_outcome>>
    /\ UNCHANGED <<widgets, button, llm_reply, payload, df, csv_data, runs>>

\* len(v)
PyLen(v) ==
    CASE v.t = "list" -> Len(v.xs)
      [] v.t = "dict" -> Len(v.items)
      [] v.t = "str"  -> Len(v.s)
      [] OTHER        -> 0

Sized(v) == v.t \in {"list", "dict", "str"}

\* st.success(f"Retrieved {len(results)} ..."), the conversion, st.subheader, st.dataframe
Normalize(frame, noun, title, next) ==
    IF ~Sized(results)
    THEN ExceptHandler(messages, Raise("TypeError")) /\ UNCHANGED df
    ELSE LET shown == Append(messages,
                        [kind |-> "success", text |-> "Retrieved {n} " \o noun,
                         n |-> PyLen(results)])
         IN IF IsRaise(frame)
            THEN ExceptHandler(shown, frame) /\ UNCHANGED df
            ELSE /\ df' = frame
                 /\ messages' = shown \o <<Shown("subheader", title),
                                           [kind |-> "dataframe", frame |-> frame]>>
                 /\ pc' = next
                 /\ UNCHANGED <<raised, last_outcome>>

\* df.to_csv(buffer, index=False); buffer.getvalue(); st.download_button
Export(file_name) ==
    LET text == ToCsv(df) IN
    /\ csv_data' = Str(text)
    /\ messages' = Append(messages,
                     [kind |-> "download_button", file_name |-> file_name,
                      mime |-> "text/csv", data |-> text])
    /\ pc' = "idle"
    /\ last_outcome' = "done"
    /\ UNCHANGED raised

LeadsNormalize ==
    /\ pc = "li_normalize"
    /\ Normalize(ConvertToDataframe(results), "profiles", "Results", "li_export")
    /\ UNCHANGED <<widgets, button, llm_reply, payload, results, csv_data, calls, runs>>

LeadsExport ==
    /\ pc = "li_export"
    /\ Export("linkedin_leads.csv")
    /\ UNCHANGED <<widgets, button, llm_reply, payload, results, df, calls, runs>>

---------------------------------------------------------------------------
(* The Scrape Instagram Posts pipeline. *)

\* run_input of run_instagram_posts_scraper
RunInput(profile_url, max_items) ==
    Dict(<< << <<"startUrls">>, List(<<Str(profile_url)>>) >>,
            << <<"maxItems">>, Num(max_items) >>,
            << <<"proxyConfiguration">>,
               Dict(<< << <<"useApifyProxy">>, Bool(TRUE) >>,
                       << <<"apifyProxyGroups">>, List(<<S1("RESIDENTIAL")>>) >> >>) >> >>)

ActorCall(status) ==
    [svc |-> "parseforge/instagram-posts-scraper", token |-> apify_api_token,
     run_input |-> RunInput(PyStrip(instagram_profile_url), instagram_max_items),
     status |-> status]

DatasetCall(status) ==
    [svc |-> "dataset.iterate_items", token |-> apify_api_token, status |-> status]

\* the actor call fails; it returns no run; the dataset read fails; the items arrive
PostsOutcomes ==
    {[calls |-> <<ActorCall("failed")>>, value |-> Raise("ApifyApiError")],
     [calls |-> <<ActorCall("ok")>>, value |-> Raise("TypeError")],
     [calls |-> <<ActorCall("ok"), DatasetCall("failed")>>, value |-> Raise("ApifyApiError")]}
    \cup {[calls |-> <<ActorCall("ok"), DatasetCall("ok")>>, value |-> r] :
            r \in FormPostResults}

\* run_instagram_posts_scraper(instagram_profile_url.strip(), max_items, token)
PostsFetch ==
    /\ pc = "ig_fetch"
    /\ \E out \in PostsOutcomes :
          /\ calls' = calls \o out.calls
          /\ IF IsRaise(out.value)
             THEN ExceptHandler(messages, out.value) /\ UNCHANGED results
             ELSE /\ results' = out.value
                  /\ pc' = "ig_normalize"
                  /\ UNCHANGED <<messages, raised, last_outcome>>
    /\ UNCHANGED <<widgets, button, llm_reply, payload, df, csv_data, runs>>

PostsNormalize ==
    /\ pc = "ig_normalize"
    /\ Normalize(ConvertInstagramToDataframe(results), "posts", "Instagram Posts", "ig_export")
    /\ UNCHANGED <<widgets, button, llm_reply, payload, results, csv_data, calls, runs>>

PostsExport ==
    /\ pc = "ig_export"
    /\ Export("instagram_posts.csv")
    /\ UNCHANGED <<widgets, button, llm_reply, payload, results, df, calls, runs>>

---------------------------------------------------------------------------
(* The form specification: a session from its first script run. *)

Init ==
    /\ mistral_api_key = <<>>
    /\ apify_api_token = <<>>
    /\ user_input = <<>>
    /\ instagram_profile_url = <<>>
    /\ instagram_max_items = "10"
    /\ button = "none"
    /\ pc = "idle"
    /\ llm_reply = Unset
    /\ payload = Unset
    /\ results = Unset
    /\ df = Unset
    /\ csv_data = Unset
    /\ messages = <<>>
    /\ calls = <<>>
    /\ raised = Unset
    /\ runs = 0
    /\ last_outcome = "none"

Next ==
    \/ EditWidget
    \/ ClickGenerateLeads
    \/ ClickScrapeInstagram
    \/ LeadsSynth(FormReplies)
    \/ LeadsFetch
    \/ LeadsNormalize
    \/ LeadsExport
    \/ PostsFetch
    \/ PostsNormalize
    \/ PostsExport

Spec == Init /\ [][Next]_vars

---------------------------------------------------------------------------
(* The synthesizer specification: generate_payload on every reply of AllReplies, *)
(* from the state a Generate Leads run is in when it reaches generate_payload.   *)

InitSynth ==
    /\ mistral_api_key = <<"sk-mistral">>
    /\ apify_api_token = <<"apify_api_xyz">>
    /\ user_input = <<"Give me 50 SaaS founders in UK">>
    /\ instagram_profile_url = <<>>
    /\ instagram_max_items = "10"
    /\ button = "run_button"
    /\ pc = "li_synth"
    /\ llm_reply = Unset
    /\ payload = Unset
    /\ results = Unset
    /\ df = Unset
    /\ csv_data = Unset
    /\ messages = <<>>
    /\ calls = <<>>
    /\ raised = Unset
    /\ runs = 1
    /\ last_outcome = "none"

NextSynth == LeadsSynth(AllReplies)

SpecSynth == InitSynth /\ [][NextSynth]_vars

---------------------------------------------------------------------------
(* The normalizer specification: the conversion and the export on every list of  *)
(* LeadLists and PostLists, from the state a run is in when its fetch returned.  *)

InitNormLeads ==
    /\ mistral_api_key = <<"sk-mistral">>
    /\ apify_api_token = <<"apify_api_xyz">>
    /\ user_input = <<"Give me 50 SaaS founders in UK">>
    /\ instagram_profile_url = <<>>
    /\ instagram_max_items = "10"
    /\ button = "run_button"
    /\ pc = "li_normalize"
    /\ llm_reply = Str(ObjectText(RequiredKeys, "uk"))
    /\ payload = GeneratePayloadParse(llm_reply.s)
    /\ results \in LeadLists
    /\ df = Unset
    /\ csv_data = Unset
    /\ messages = <<Shown("success", "Structured payload generated"),
                    [kind |-> "json", body |-> payload]>>
    /\ calls = <<ChatCall("ok")>> \o SearchCalls(apify_api_token, SearchBody(payload), "ok")
    /\ raised = Unset
    /\ runs = 1
    /\ last_outcome = "none"

InitNormPosts ==
    /\ mistral_api_key = <<>>
    /\ apify_api_token = <<"apify_api_xyz">>
    /\ user_input = <<>>
    /\ instagram_profile_url = <<SP, "https://www.instagram.com/instagram/", NL>>
    /\ instagram_max_items = "10"
    /\ button = "run_instagram_button"
    /\ pc = "ig_normalize"
    /\ llm_reply = Unset
    /\ payload = Unset
    /\ results \in PostLists
    /\ df = Unset
    /\ csv_data = Unset
    /\ messages = <<>>
    /\ calls = <<ActorCall("ok"), DatasetCall("ok")>>
    /\ raised = Unset
    /\ runs = 1
    /\ last_outcome = "none"

InitNorm == InitNormLeads \/ InitNormPosts

NextNorm ==
    \/ LeadsNormalize
    \/ LeadsExport
    \/ PostsNormalize
    \/ PostsExport

SpecNorm == InitNorm /\ [][NextNorm]_vars

---------------------------------------------------------------------------
(* What the claims are stated with. *)

\* a text of white space only, or empty
Blank(cs) == \A i \in 1..Len(cs) : cs[i] \in PyWhitespace

\* this run rendered one message, an error with this text, and nothing else happened
StoppedWith(text) ==
    /\ pc = "idle"
    /\ messages = <<Shown("error", text)>>
    /\ calls = <<>>
    /\ llm_reply = Unset /\ payload = Unset /\ results = Unset
    /\ df = Unset /\ csv_data = Unset

MissingCredentialTexts ==
    {"Please provide both API keys in the sidebar.",
     "Please provide your Apify API token in the sidebar."}

\* the replies that are JSON once trimmed: the objects, whatever their keys, and the scalars
PaddedTexts(core) == {lead \o core \o trail : lead \in Pads, trail \in Pads}
JsonReplies == ObjectReplies(SUBSET RequiredKeys, {"none"}) \cup ScalarReplies
\* the replies that are JSON objects with all five keys
QueryReplies == ObjectReplies({RequiredKeys}, {"none"})

\* the cell of line i of a frame under the column named col
Cell(frame, i, col) ==
    frame.data[i][CHOOSE j \in 1..Len(frame.columns) : frame.columns[j] = <<col>>]

\* the value of the first key of the chain that is present and not null
RECURSIVE FirstNonNull(_, _)
FirstNonNull(record, chain) ==
    IF chain = <<>> THEN None
    ELSE IF HasKey(record, <<Head(chain)>>) /\ Lookup(record, <<Head(chain)>>) # None
    THEN Lookup(record, <<Head(chain)>>)
    ELSE FirstNonNull(record, Tail(chain))

\* the output fields of a post that have a fallback chain
PostChains ==
    {[col |-> "Post URL", chain |-> <<"postUrl", "url", "permalink">>],
     [col |-> "Caption", chain |-> <<"caption", "text">>],
     [col |-> "Likes", chain |-> <<"likesCount", "likes">>],
     [col |-> "Comments", chain |-> <<"commentsCount", "comments">>],
     [col |-> "Posted At", chain |-> <<"timestamp", "takenAt">>],
     [col |-> "Thumbnail", chain |-> <<"displayUrl", "thumbnailUrl">>],
     [col |-> "Username", chain |-> <<"ownerUsername", "username">>]}

\* record[outer][0][inner] is missing at some level
ArrayPathMissing(record, outer, inner) ==
    \/ ~HasKey(record, <<outer>>)
    \/ LET a == Lookup(record, <<outer>>) IN
       \/ a = None
       \/ a = List(<<>>)
       \/ IsList(a) /\ a.xs # <<>> /\ a.xs[1] = None
       \/ IsList(a) /\ a.xs # <<>> /\ IsDict(a.xs[1]) /\ ~HasKey(a.xs[1], <<inner>>)

\* record[outer][inner] is missing at some level
ObjectPathMissing(record, outer, inner) ==
    \/ ~HasKey(record, <<outer>>)
    \/ LET o == Lookup(record, <<outer>>) IN
       \/ o = None
       \/ IsDict(o) /\ ~HasKey(o, <<inner>>)

LeadsRun == button = "run_button"
PostsRun == button = "run_instagram_button"
\* the conversion of this run has been executed
Converted == results # Unset /\ pc \notin {"li_normalize", "ig_normalize"}

ColumnsOf(which) == IF which = "run_button" THEN LeadsColumns ELSE PostsColumns

CallNames == [i \in 1..Len(calls) |-> calls[i].svc]

---------------------------------------------------------------------------
(* A standard CSV reader (csv.reader with its defaults), to read csv_data back. *)

RECURSIVE ReadCsvFrom(_, _, _, _, _)
ReadCsvFrom(cs, st, field, row, rows) ==
    IF cs = <<>>
    THEN (IF st = "start_record" THEN rows ELSE Append(rows, Append(row, field)))
    ELSE LET c == Head(cs)
             r == Tail(cs)
             endField == ReadCsvFrom(r, "start_field", <<>>, Append(row, field), rows)
             endRecord == ReadCsvFrom(r, "start_record", <<>>, <<>>,
                                      Append(rows, Append(row, field)))
         IN CASE st = "start_record" /\ c \in {NL, "\r"} ->
                    ReadCsvFrom(r, "start_record", <<>>, <<>>, Append(rows, <<>>))
              [] st = "start_field" /\ c \in {NL, "\r"} -> endRecord
              [] st \in {"start_record", "start_field"} /\ c = DQ ->
                    ReadCsvFrom(r, "in_quoted", <<>>, row, rows)
              [] st \in {"start_record", "start_field"} /\ c = COMMA -> endField
              [] st \in {"start_record", "start_field"} /\ c \notin {NL, "\r", DQ, COMMA} ->
                    ReadCsvFrom(r, "in_field", <<c>>, row, rows)
              [] st = "in_field" /\ c \in {NL, "\r"} -> endRecord
              [] st = "in_field" /\ c = COMMA -> endField
              [] st = "in_field" /\ c \notin {NL, "\r", COMMA} ->
                    ReadCsvFrom(r, "in_field", Append(field, c), row, rows)
              [] st = "in_quoted" /\ c = DQ ->
                    ReadCsvFrom(r, "quote_in_quoted", field, row, rows)
              [] st = "in_quoted" /\ c # DQ ->
                    ReadCsvFrom(r, "in_quoted", Append(field, c), row, rows)
              [] st = "quote_in_quoted" /\ c = DQ ->
                    ReadCsvFrom(r, "in_quoted", Append(field, DQ), row, rows)
              [] st = "quote_in_quoted" /\ c = COMMA -> endField
              [] st = "quote_in_quoted" /\ c \in {NL, "\r"} -> endRecord
              [] OTHER -> ReadCsvFrom(r, "in_field", Append(field, c), row, rows)

\* the rows a reader yields: the first is the header, the rest are the data rows
ReadCsv(text) == ReadCsvFrom(text, "start_record", <<>>, <<>>, <<>>)

---------------------------------------------------------------------------
(* C1 *)

\* C1 as stated: in both actions, an empty language-model key or an empty
\* scraping-platform token ends the run with the missing-credential error and no
\* network call.
C1_EitherCredentialStopsBothActions ==
    ((LeadsRun \/ PostsRun) /\ (mistral_api_key = <<>> \/ apify_api_token = <<>>))
        => \E text \in MissingCredentialTexts : StoppedWith(text)

\* C1 as amended: Generate Leads stops with the missing-credential error and no
\* network call when either credential is empty; Scrape Instagram Posts does so
\* when the scraping-platform token is empty (it never reads the language-model key).
C1_CredentialGuards ==
    /\ (LeadsRun /\ (mistral_api_key = <<>> \/ apify_api_token = <<>>))
          => StoppedWith("Please provide both API keys in the sidebar.")
    /\ (PostsRun /\ apify_api_token = <<>>)
          => StoppedWith("Please provide your Apify API token in the sidebar.")

\* Generate Leads was pressed with the token and a search request but no model key
C1_Witness ==
    /\ LeadsRun
    /\ mistral_api_key = <<>> /\ apify_api_token # <<>> /\ ~Blank(user_input)
    /\ last_outcome = "missing_credential"

---------------------------------------------------------------------------
(* C2 *)

---------------------------------------------------------------------------
(* C3 *)

\* C3: every chained field of every post row is the value of the first key of its
\* chain that is present and not null, 0, false and the empty string included.
C3_FirstNonNullWins ==
    (PostsRun /\ Converted /\ df # Unset) =>
        \A i \in 1..Len(results.xs) : \A f \in PostChains :
            Cell(df, i, f.col) = FirstNonNull(results.xs[i], f.chain)

---------------------------------------------------------------------------
(* C4 *)

\* C4: the conversion of lead records never raises, and a record whose emails,
\* companyWebsites or location is missing at any level gets the absent value there.
C4_MissingNeverRaises ==
    (LeadsRun /\ Converted) =>
        /\ ~IsRaise(raised)
        /\ df # Unset
        /\ \A i \in 1..Len(results.xs) :
            LET r == results.xs[i] IN
            /\ ArrayPathMissing(r, "emails", "email") => Cell(df, i, "Email") = None
            /\ ArrayPathMissing(r, "companyWebsites", "url")
                  => Cell(df, i, "Company Website") = None
            /\ ObjectPathMissing(r, "location", "linkedinText")
                  => Cell(df, i, "Location") = None

---------------------------------------------------------------------------
(* C5 *)

\* C5: read back, every CSV has the fixed column list of its kind as its header,
\* one data row per record, and the declared number of fields in every row.
C5_CsvHeaderAndRows ==
    csv_data # Unset =>
        LET rows == ReadCsv(csv_data.s) IN
        /\ Len(rows) = Len(results.xs) + 1
        /\ rows[1] = ColumnsOf(button)
        /\ \A i \in 1..Len(rows) : Len(rows[i]) = Len(ColumnsOf(button))

---------------------------------------------------------------------------
(* C6 *)

\* C6: an error of a pipeline step ends the run at the except clause: the run has
\* rendered exactly one error message, which carries that error, no call was issued
\* twice, the script is not left in a step, and either button can be pressed again.
C6_ErrorsCaughtOnce ==
    /\ pc \in {"idle", "li_synth", "li_fetch", "li_normalize", "li_export",
               "ig_fetch", "ig_normalize", "ig_export"}
    /\ raised # Unset =>
        /\ pc = "idle"
        /\ last_outcome = "exception"
        /\ messages # <<>>
        /\ messages[Len(messages)] =
              [kind |-> "error", text |-> "Error: {e}", exc |-> raised.exc]
        /\ Cardinality({i \in 1..Len(messages) : messages[i].kind = "error"}) = 1
        /\ \A i, j \in 1..Len(calls) : i # j => calls[i].svc # calls[j].svc
        /\ df = Unset /\ csv_data = Unset
        /\ runs < MaxRuns => (ENABLED ClickGenerateLeads /\ ENABLED ClickScrapeInstagram)

\* the run after a run that ended in the except clause has reached its export
C6_Witness ==
    /\ last_outcome = "exception"
    /\ runs > 1
    /\ pc \in {"li_export", "ig_export"}
    /\ df # Unset /\ raised = Unset

---------------------------------------------------------------------------
(* C7 *)

SearchBodyFields ==
    {<<"currentJobTitles">>, <<"maxItems">>, <<"profileScraperMode">>,
     <<"recentlyChangedJobs">>, <<"searchQuery">>, <<"startPage">>}

\* C7: the body of every profile-search call has exactly the six fields, three copied
\* from the query and three fixed; a query with all five keys always gets its call;
\* and the body is the same whatever the query's location and industry are.
C7_SearchBodySixFields ==
    /\ \A i \in 1..Len(calls) :
          calls[i].svc = "linkedin-profile-search" =>
             LET b == calls[i].json IN
             /\ IsDict(b)
             /\ Len(b.items) = Cardinality(SearchBodyFields)
             /\ {b.items[k][1] : k \in 1..Len(b.items)} = SearchBodyFields
             /\ Get(b, <<"currentJobTitles">>) = Get(payload, <<"jobTitles">>)
             /\ Get(b, <<"maxItems">>) = Get(payload, <<"maxResults">>)
             /\ Get(b, <<"searchQuery">>) = Get(payload, <<"search">>)
             /\ Get(b, <<"profileScraperMode">>) = S1("Full + email search")
             /\ Get(b, <<"recentlyChangedJobs">>) = Bool(FALSE)
             /\ Get(b, <<"startPage">>) = Num("1")
             /\ \A v \in Variants :
                   SearchBody(With(With(payload, "location", SampleValue("location", v)),
                                   "industry", SampleValue("industry", v))) = b
    /\ (LeadsRun /\ payload \in {SampleObject(RequiredKeys, v) : v \in Variants}
          /\ pc # "li_fetch")
          => \E i \in 1..Len(calls) : calls[i].svc = "linkedin-profile-search"

\* a profile-search call went out for the query located in the United States
C7_Witness ==
    /\ payload = SampleObject(RequiredKeys, "us")
    /\ Len(calls) = 2
    /\ calls[2].svc = "linkedin-profile-search"
    /\ calls[2].status = "ok"

---------------------------------------------------------------------------
(* C8 *)

\* C8: the conversion of every list of records gives a table of as many lines, and
\* line i holds the fields of record i.
C8_OneRowPerRecordInOrder ==
    Converted =>
        /\ df # Unset
        /\ Len(df.data) = Len(results.xs)
        /\ \A i \in 1..Len(results.xs) :
              LET row == IF LeadsRun THEN LeadRow(results.xs[i]) ELSE PostRow(results.xs[i])
              IN df.data[i] = [j \in 1..Len(ColumnsOf(button)) |->
                                  Get(row, ColumnsOf(button)[j])]

---------------------------------------------------------------------------
(* C9 *)

\* C9: with the credentials its guard asks for, an action whose free text is empty or
\* white space only ends with the empty-input error; nothing was called or produced.
C9_BlankInputStops ==
    /\ (LeadsRun /\ mistral_api_key # <<>> /\ apify_api_token # <<>> /\ Blank(user_input))
          => StoppedWith("Please enter a search request.")
    /\ (PostsRun /\ apify_api_token # <<>> /\ Blank(instagram_profile_url))
          => StoppedWith("Please enter an Instagram profile URL.")

\* Generate Leads was pressed with both credentials and a search request of white space
C9_Witness ==
    /\ LeadsRun
    /\ mistral_api_key # <<>> /\ apify_api_token # <<>>
    /\ user_input # <<>> /\ Blank(user_input)
    /\ last_outcome = "empty_input"

---------------------------------------------------------------------------
(* C10 *)

\* C10: the calls of a Generate Leads run are a prefix of <<chat completion,
\* profile search>>; the search is there only with a parsed payload; a call that did
\* not succeed is the last one; table and CSV exist only after a search that
\* returned a success status.
C10_CallsArePrefix ==
    LeadsRun =>
        /\ CallNames \in {<<>>, <<"chat.complete">>,
                          <<"chat.complete", "linkedin-profile-search">>}
        /\ Len(calls) = 2 => (calls[1].status = "ok" /\ payload # Unset)
        /\ \A i \in 1..Len(calls) :
              calls[i].status # "ok" => (i = Len(calls) /\ pc = "idle" /\ IsRaise(raised))
        /\ (df # Unset \/ csv_data # Unset) =>
              (Len(calls) = 2 /\ calls[2].status = "ok" /\ results # Unset)

\* a Generate Leads run ended with its CSV after both calls
C10_Witness ==
    /\ LeadsRun
    /\ pc = "idle"
    /\ csv_data # Unset
    /\ CallNames = <<"chat.complete", "linkedin-profile-search">>

====
